---- MODULE Spec2Model ----
(***************************************************************************)
(* Model of the image-analysis orchestrator processImagesWithOpenAI        *)
(* (server/openai-service.ts): upload -> thread -> message -> run -> poll  *)
(* -> extract -> cleanup, against a remote assistant service whose every   *)
(* operation may succeed or fail.                                          *)
(***************************************************************************)
EXTENDS Integers, Sequences, FiniteSets, TLC

\* ---------------------------------------------------------------- bounds
MaxFiles == 2      \* images per call
MaxPolls == 2      \* iterations of the polling loop that are explored
MaxMsgs  == 2      \* messages in the list returned by listMessages
MaxParts == 2      \* content parts in that list, over all its messages
MaxConfigChanges == 2  \* edits of the client's configuration fields
MaxInvocations == 2    \* invocations of processImagesWithOpenAI in flight
MaxClock == 1          \* milliseconds Date.now() advances
MaxRequests == 2       \* calls of the client's processImages

\* ------------------------------------------------------------- JS values
Undefined == [tag |-> "undefined"]
Null      == [tag |-> "null"]
Str(s)    == [tag |-> "string", value |-> s]

\* a falsy value of JavaScript, among the values that occur here
Falsy(v) == v.tag \in {"undefined", "null"} \/ (v.tag = "string" /\ v.value = "")

\* a || b
JsOr(a, b) == IF Falsy(a) THEN b ELSE a

\* new Error(message)
Error(msg) == [message |-> msg]

\* --------------------------------------------------- the remote service
Ops == {"uploadFile", "createThread", "createMessage", "createRun",
        "getRun", "listMessages", "deleteFile"}

\* messages of the faults a remote operation rejects with
FaultMsgs == {"", "Connection error.", "401 Incorrect API key provided"}

\* run.status values the service reports
RunStatuses == {"queued", "in_progress", "completed", "failed",
                "requires_action", "cancelled"}

\* run.last_error: null, or an object with a message
LastErrors == {Null, [message |-> Str("")], [message |-> Str("Rate limit exceeded")]}

\* the run objects getRun resolves with; last_error is set on failed runs only
RunResponses ==
    {[status |-> s, last_error |-> Null] : s \in RunStatuses}
    \cup {[status |-> "failed", last_error |-> e] : e \in LastErrors}

\* runStatus.last_error?.message
LastErrorMessage(lastError) == IF lastError = Null THEN Undefined ELSE lastError.message

TextVals == {"A", "B"}
TextPart(t) == [type |-> "text", text |-> [value |-> t]]
ImagePart(id) == [type |-> "image_file", image_file |-> [file_id |-> id]]
Parts == {TextPart(t) : t \in TextVals} \cup {ImagePart(1)}
Roles == {"user", "assistant"}

BoundedSeq(S, n) == UNION {[1..k -> S] : k \in 0..n}

\* an assistant message carries any content; a user message is the request,
\* which carries one text part
Messages ==
    {m \in [role : Roles, content : BoundedSeq(Parts, MaxParts)] :
        m.role = "user" => m.content = <<TextPart("A")>>}

RECURSIVE TotalParts(_)
TotalParts(msgs) ==
    IF msgs = <<>> THEN 0 ELSE Len(Head(msgs).content) + TotalParts(Tail(msgs))

\* the lists listMessages resolves with (newest first)
MessageLists == {msgs \in BoundedSeq(Messages, MaxMsgs) : TotalParts(msgs) <= MaxParts}

\* ------------------------------------------------------ fixed strings
PromptText == "Please analyze these images according to you knowledge base and provide a detailed JSON response with your findings."
RequiresActionMsg == "The assistant requires additional input to complete the task"
RunFailedMsg == "The assistant failed to process the images"
NoResponseMsg == "No response received from the assistant"
GenericMsg == "An error occurred while processing with OpenAI"

\* ------------------------------------------------------------ the state
VARIABLES
    pc,           \* position of the call: start, upload, thread, message, run,
                  \* retrieve, loop, list, cleanup, done
    files,        \* the input images
    upl,          \* per image: state of its upload promise
    uploadedId,   \* per image: the id its upload returned (0: none)
    tmp,          \* indexes whose temporary file exists on local disk
    fileIds,      \* result of the upload Promise.all
    remote,       \* remote resources: files, threads, messages, runs
    nextFileId,   \* the remote service's file id allocator
    calls,        \* remote calls issued, per operation
    runStatus,    \* the run object the last getRun resolved with
    pollCount,
    messages,     \* the list returned by listMessages
    rawResponse,
    deleteCalls,  \* file ids deleteFile was issued for, in order
    del,          \* per delete call: state of its promise
    faults,       \* faults raised by remote operations other than deleteFile
    result,       \* the value the call resolved with
    apiKey,       \* the credential the call was given
    assistantId,  \* the assistant id the call was given
    \* the request path: client configuration, route handler, server log
    config,       \* the client's ConfigState
    req,          \* the request the route handler received
    rpc,          \* position of the route handler
    res,          \* the response it sent
    svcCalls,     \* calls of processImagesWithOpenAI it made
    log,          \* the lines logged by handleConfigChange, the route handler
                  \* and the entry of processImagesWithOpenAI
    altLog,       \* the lines logged by the same run with another credential
    home,         \* the state of the client's Home component
    \* concurrent invocations staging their uploads on the local disk
    clock,        \* Date.now()
    invs,         \* per invocation: its images and the state of their uploads
    disk          \* the temporary files: path -> bytes

\* the state of one call of processImagesWithOpenAI
ovars == <<pc, files, upl, uploadedId, tmp, fileIds, remote, nextFileId, calls,
           runStatus, pollCount, messages, rawResponse, deleteCalls, del, faults,
           result>>
rvars == <<config, req, rpc, res, svcCalls, log, altLog, home>>
cvars == <<clock, invs, disk>>

vars == <<ovars, apiKey, assistantId, rvars, cvars>>

N == Len(files)

\* an input image as multer hands it over
ImageFile(i) == [buffer |-> i, size |-> 1024, mimetype |-> "image/jpeg"]

\* the request path and the staging area when they are not exercised
RouteIdle ==
    /\ config = [apiKey |-> "", assistantId |-> ""]
    /\ req = Null /\ rpc = "idle" /\ res = Null /\ svcCalls = 0
    /\ log = <<>> /\ altLog = <<>>
    /\ home = [files |-> 0, isLoading |-> FALSE, error |-> Null,
               response |-> Null, at |-> "idle", calls |-> 0, fetches |-> 0,
               toast |-> Null]

ConcIdle == clock = 0 /\ invs = <<>> /\ disk = {}

Init ==
    /\ pc = "start"
    /\ files \in {[i \in 1..k |-> ImageFile(i)] : k \in 1..MaxFiles}
    /\ upl = [i \in 1..Len(files) |-> "idle"]
    /\ uploadedId = [i \in 1..Len(files) |-> 0]
    /\ tmp = {}
    /\ fileIds = <<>>
    /\ remote = [files |-> {}, threads |-> 0, messages |-> <<>>, runs |-> 0]
    /\ nextFileId = 1
    /\ calls = [op \in Ops |-> 0]
    /\ runStatus = Null
    /\ pollCount = 0
    /\ messages = <<>>
    /\ rawResponse = Null
    /\ deleteCalls = <<>>
    /\ del = <<>>
    /\ faults = <<>>
    /\ result = [data |-> Undefined, error |-> Undefined]
    /\ apiKey = "sk-1" /\ assistantId = "asst_1"
    /\ RouteIdle /\ ConcIdle

\* --------------------------------------------------------------- helpers
Called(op, k) == calls' = [calls EXCEPT ![op] = @ + k]

Faulted(op, m) == faults' = Append(faults, [op |-> op, msg |-> m])

\* Promise.all over the cleanup promises, each of which catches its own
\* rejection: fulfilled once every delete has settled
CleanupAllRejecting(st) ==
    IF \E k \in DOMAIN st : st[k] = "failed" THEN "rejected"
    ELSE IF \A k \in DOMAIN st : st[k] = "ok" THEN "fulfilled"
    ELSE "pending"

CleanupAll(st) ==
    IF \A k \in DOMAIN st : st[k] # "inflight" THEN "fulfilled" ELSE "pending"

\* Promise.all over promises in the states inflight / ok / failed
PromiseAllIgnoringRejections(st) ==
    IF \A i \in DOMAIN st : st[i] # "inflight" THEN "fulfilled" ELSE "pending"

PromiseAllFirstFulfilled(st) ==
    IF \E i \in DOMAIN st : st[i] = "ok" THEN "fulfilled"
    ELSE IF \E i \in DOMAIN st : st[i] = "failed" THEN "rejected"
    ELSE "pending"

PromiseAll(st) ==
    IF \E i \in DOMAIN st : st[i] = "failed" THEN "rejected"
    ELSE IF \A i \in DOMAIN st : st[i] = "ok" THEN "fulfilled"
    ELSE "pending"

\* the catch block: the value the call resolves with
CatchResultNoFallback(error) == [data |-> Undefined, error |-> error.message]

CatchResult(error) ==
    [data |-> Undefined, error |-> JsOr(error.message, Str(GenericMsg))]

\* throw inside the try block
Throw(error) ==
    /\ result' = CatchResult(error)
    /\ pc' = "done"

\* the error thrown for a run whose status is failed
RunFailureFixed(run) == Error(Str(RunFailedMsg))

RunFailure(run) ==
    Error(JsOr(LastErrorMessage(run.last_error), Str(RunFailedMsg)))

\* the content of the message added to the thread
MessageContentInIdOrder(ids) ==
    LET S == {ids[i] : i \in DOMAIN ids}
    IN  <<TextPart(PromptText)>>
        \o [i \in 1..Len(ids) |->
              ImagePart(CHOOSE x \in S : Cardinality({y \in S : y < x}) = i - 1)]

MessageContent(ids) ==
    <<TextPart(PromptText)>> \o [i \in 1..N |-> ImagePart(ids[i])]

\* messages.data.filter(msg => msg.role === "assistant")
AssistantMessages(msgs) == SelectSeq(msgs, LAMBDA m : m.role = "assistant")

\* the for loop over latestMessage.content, from part k on
RECURSIVE ScanContent(_, _)
ScanContent(content, k) ==
    IF k > Len(content) THEN Null
    ELSE IF content[k].type = "text" THEN Str(content[k].text.value)
    ELSE ScanContent(content, k + 1)

RECURSIVE ScanContentLast(_, _)
ScanContentLast(content, k) ==
    IF k < 1 THEN Null
    ELSE IF content[k].type = "text" THEN Str(content[k].text.value)
    ELSE ScanContentLast(content, k - 1)

RawResponseLastText(latestMessage) ==
    ScanContentLast(latestMessage.content, Len(latestMessage.content))

RawResponseOf(latestMessage) == ScanContent(latestMessage.content, 1)

\* the ids deleteFile is issued for
CleanupTargetsButLast(ids) == SubSeq(ids, 1, Len(ids) - 1)

CleanupTargets(ids) == ids

\* --------------------------------------------------------------- actions

\* files.map(async ...): every temporary file is written and every upload
\* is issued before the first await
Start ==
    /\ pc = "start"
    /\ upl' = [i \in 1..N |-> "inflight"]
    /\ tmp' = 1..N
    /\ Called("uploadFile", N)
    /\ pc' = IF N = 0 THEN "thread" ELSE "upload"
    /\ UNCHANGED <<files, uploadedId, fileIds, remote, nextFileId, runStatus,
                   pollCount, messages, rawResponse, deleteCalls, del, faults,
                   result>>

\* openai.files.create of image i resolves
UploadOk(i) ==
    /\ upl[i] = "inflight"
    /\ remote' = [remote EXCEPT !.files = @ \cup {nextFileId}]
    /\ nextFileId' = nextFileId + 1
    /\ uploadedId' = [uploadedId EXCEPT ![i] = nextFileId]
    /\ tmp' = tmp \ {i}
    /\ upl' = [upl EXCEPT ![i] = "ok"]
    /\ IF pc = "upload" /\ PromiseAll(upl') = "fulfilled"
         THEN /\ fileIds' = [j \in 1..N |-> uploadedId'[j]]
              /\ pc' = "thread"
         ELSE UNCHANGED <<fileIds, pc>>
    /\ UNCHANGED <<files, calls, runStatus, pollCount, messages, rawResponse,
                   deleteCalls, del, faults, result>>

\* openai.files.create of image i rejects
UploadFail(i, m) ==
    /\ upl[i] = "inflight"
    /\ tmp' = tmp \ {i}
    /\ upl' = [upl EXCEPT ![i] = "failed"]
    /\ Faulted("uploadFile", m)
    /\ IF pc = "upload" /\ PromiseAll(upl') = "rejected"
         THEN Throw(Error(Str(m)))
         ELSE UNCHANGED <<pc, result>>
    /\ UNCHANGED <<files, uploadedId, fileIds, remote, nextFileId, calls,
                   runStatus, pollCount, messages, rawResponse, deleteCalls, del>>

CreateThreadOk ==
    /\ pc = "thread"
    /\ Called("createThread", 1)
    /\ remote' = [remote EXCEPT !.threads = @ + 1]
    /\ pc' = "message"
    /\ UNCHANGED <<files, upl, uploadedId, tmp, fileIds, nextFileId, runStatus,
                   pollCount, messages, rawResponse, deleteCalls, del, faults,
                   result>>

CreateMessageOk ==
    /\ pc = "message"
    /\ Called("createMessage", 1)
    /\ remote' = [remote EXCEPT !.messages = Append(@, MessageContent(fileIds))]
    /\ pc' = "run"
    /\ UNCHANGED <<files, upl, uploadedId, tmp, fileIds, nextFileId, runStatus,
                   pollCount, messages, rawResponse, deleteCalls, del, faults,
                   result>>

CreateRunOk ==
    /\ pc = "run"
    /\ Called("createRun", 1)
    /\ remote' = [remote EXCEPT !.runs = @ + 1]
    /\ pc' = "retrieve"
    /\ UNCHANGED <<files, upl, uploadedId, tmp, fileIds, nextFileId, runStatus,
                   pollCount, messages, rawResponse, deleteCalls, del, faults,
                   result>>

\* one of the sequential remote calls rejects
OpOf(p) == CASE p = "thread" -> "createThread"
             [] p = "message" -> "createMessage"
             [] p = "run" -> "createRun"
             [] p = "retrieve" -> "getRun"
             [] p = "loop" -> "getRun"
             [] p = "list" -> "listMessages"

RemoteFail(m) ==
    /\ pc \in {"thread", "message", "run", "retrieve", "loop", "list"}
    /\ pc = "loop" => pollCount < MaxPolls
    /\ Called(OpOf(pc), 1)
    /\ Faulted(OpOf(pc), m)
    /\ Throw(Error(Str(m)))
    /\ UNCHANGED <<files, upl, uploadedId, tmp, fileIds, remote, nextFileId,
                   runStatus, pollCount, messages, rawResponse, deleteCalls, del>>

\* the first runs.retrieve, then the while condition
RetrieveRun(run) ==
    /\ pc = "retrieve"
    /\ Called("getRun", 1)
    /\ runStatus' = run
    /\ IF run.status = "completed" THEN pc' = "list" /\ UNCHANGED result
       ELSE IF run.status = "failed" THEN Throw(RunFailure(run))
       ELSE pc' = "loop" /\ UNCHANGED result
    /\ UNCHANGED <<files, upl, uploadedId, tmp, fileIds, remote, nextFileId,
                   pollCount, messages, rawResponse, deleteCalls, del, faults>>

\* one iteration of the while loop, then the while condition
PollRun(run) ==
    /\ pc = "loop"
    /\ pollCount < MaxPolls
    /\ Called("getRun", 1)
    /\ runStatus' = run
    /\ pollCount' = pollCount + 1
    /\ IF run.status = "requires_action" THEN Throw(Error(Str(RequiresActionMsg)))
       ELSE IF run.status = "completed" THEN pc' = "list" /\ UNCHANGED result
       ELSE IF run.status = "failed" THEN Throw(RunFailure(run))
       ELSE pc' = "loop" /\ UNCHANGED result
    /\ UNCHANGED <<files, upl, uploadedId, tmp, fileIds, remote, nextFileId,
                   messages, rawResponse, deleteCalls, del, faults>>

\* messages.list resolves; extraction; the deletes are issued
ListMessages(msgs) ==
    /\ pc = "list"
    /\ messages' = msgs
    /\ LET assistantMessages == AssistantMessages(msgs)
           targets == CleanupTargets(fileIds)
       IN  IF Len(assistantMessages) = 0
             THEN /\ Called("listMessages", 1)
                  /\ Throw(Error(Str(NoResponseMsg)))
                  /\ UNCHANGED <<rawResponse, deleteCalls, del>>
             ELSE /\ calls' = [calls EXCEPT !["listMessages"] = @ + 1,
                                            !["deleteFile"] = @ + Len(targets)]
                  /\ rawResponse' = RawResponseOf(assistantMessages[1])
                  /\ deleteCalls' = targets
                  /\ del' = [k \in 1..Len(targets) |-> "inflight"]
                  /\ IF Len(targets) = 0
                       THEN /\ pc' = "done"
                            /\ result' = [data |-> rawResponse', error |-> Undefined]
                       ELSE pc' = "cleanup" /\ UNCHANGED result
    /\ UNCHANGED <<files, upl, uploadedId, tmp, fileIds, remote, nextFileId,
                   runStatus, pollCount, faults>>

\* openai.files.del of the k-th id settles; failures are caught and logged
DeleteSettles(k, ok) ==
    /\ pc = "cleanup"
    /\ del[k] = "inflight"
    /\ del' = [del EXCEPT ![k] = IF ok THEN "ok" ELSE "failed"]
    /\ remote' = IF ok THEN [remote EXCEPT !.files = @ \ {deleteCalls[k]}] ELSE remote
    /\ IF CleanupAll(del') = "fulfilled"
         THEN /\ pc' = "done"
              /\ result' = [data |-> rawResponse, error |-> Undefined]
         ELSE UNCHANGED <<pc, result>>
    /\ UNCHANGED <<files, upl, uploadedId, tmp, fileIds, nextFileId, calls,
                   runStatus, pollCount, messages, rawResponse, deleteCalls, faults>>

Next ==
    \/ Start /\ UNCHANGED <<apiKey, assistantId, rvars, cvars>>
    \/ \E i \in 1..N : UploadOk(i) /\ UNCHANGED <<apiKey, assistantId, rvars, cvars>>
    \/ \E i \in 1..N, m \in FaultMsgs :
          UploadFail(i, m) /\ UNCHANGED <<apiKey, assistantId, rvars, cvars>>
    \/ CreateThreadOk /\ UNCHANGED <<apiKey, assistantId, rvars, cvars>>
    \/ CreateMessageOk /\ UNCHANGED <<apiKey, assistantId, rvars, cvars>>
    \/ CreateRunOk /\ UNCHANGED <<apiKey, assistantId, rvars, cvars>>
    \/ \E m \in FaultMsgs :
          RemoteFail(m) /\ UNCHANGED <<apiKey, assistantId, rvars, cvars>>
    \/ pc = "retrieve" /\ \E run \in RunResponses :
          RetrieveRun(run) /\ UNCHANGED <<apiKey, assistantId, rvars, cvars>>
    \/ pc = "loop" /\ \E run \in RunResponses :
          PollRun(run) /\ UNCHANGED <<apiKey, assistantId, rvars, cvars>>
    \/ pc = "list" /\ \E msgs \in MessageLists :
          ListMessages(msgs) /\ UNCHANGED <<apiKey, assistantId, rvars, cvars>>
    \/ \E k \in DOMAIN del, ok \in BOOLEAN :
          DeleteSettles(k, ok) /\ UNCHANGED <<apiKey, assistantId, rvars, cvars>>

Spec == Init /\ [][Next]_vars

\* ------------------------------------------- direct calls with any input
FileSizeLimit == 10485760
ImageTypes == {"image/jpeg", "image/png"}
FileShapes == [size : {1024, FileSizeLimit + 1},
               mimetype : {"image/jpeg", "text/plain"}]

\* what the caller is to guarantee and the call is to re-validate
ValidInput ==
    /\ apiKey # "" /\ assistantId # ""
    /\ N >= 1
    /\ \A i \in 1..N : files[i].size <= FileSizeLimit
                        /\ files[i].mimetype \in ImageTypes

DirectInit ==
    /\ pc = "start"
    /\ apiKey \in {"", "sk-1"} /\ assistantId \in {"", "asst_1"}
    /\ files \in UNION {{[i \in 1..k |-> [buffer |-> i, size |-> sh[i].size,
                                          mimetype |-> sh[i].mimetype]]
                          : sh \in [1..k -> FileShapes]} : k \in 0..MaxFiles}
    /\ upl = [i \in 1..Len(files) |-> "idle"]
    /\ uploadedId = [i \in 1..Len(files) |-> 0]
    /\ tmp = {}
    /\ fileIds = <<>>
    /\ remote = [files |-> {}, threads |-> 0, messages |-> <<>>, runs |-> 0]
    /\ nextFileId = 1
    /\ calls = [op \in Ops |-> 0]
    /\ runStatus = Null
    /\ pollCount = 0
    /\ messages = <<>>
    /\ rawResponse = Null
    /\ deleteCalls = <<>>
    /\ del = <<>>
    /\ faults = <<>>
    /\ result = [data |-> Undefined, error |-> Undefined]
    /\ RouteIdle /\ ConcIdle

SpecDirect == DirectInit /\ [][Next]_vars

TypeOK ==
    /\ pc \in {"start", "upload", "thread", "message", "run", "retrieve",
               "loop", "list", "cleanup", "done"}
    /\ tmp \subseteq 1..N
    /\ pollCount \in 0..MaxPolls

\* ------------------------------------------------- vocabulary of the claims
Returned == pc = "done"

\* a result field that is a string (neither absent nor null)
HasData == result.data.tag = "string"
HasError == result.error.tag = "string" /\ result.error.value # ""

\* the error text a fault with message m is to be reported with
Reported(m) == IF m = "" THEN Str(GenericMsg) ELSE Str(m)

AllUploadsOk == \A i \in 1..N : upl[i] = "ok"
SomeUploadFailed == \E i \in 1..N : upl[i] = "failed"

\* the number of deleteFile calls issued for file id h
DeletesOf(h) == Cardinality({k \in DOMAIN deleteCalls : deleteCalls[k] = h})

\* listMessages was called and resolved
Listed == calls["listMessages"] = 1
          /\ \A k \in DOMAIN faults : faults[k].op # "listMessages"

\* positions of the assistant messages of the returned list
AssistantAt == {j \in DOMAIN messages : messages[j].role = "assistant"}
TextAt(content) == {k \in DOMAIN content : content[k].type = "text"}
Least(S) == CHOOSE x \in S : \A y \in S : x <= y

\* C1: a returned result has exactly one of data and error populated.
C1_ExactlyOneOfDataOrError == Returned => (HasData # HasError)

\* C2: when every upload succeeded and the call returns an error, deleteFile
\* has been issued exactly once for every handle the uploads obtained.
C2_CleanupAfterLaterFailure ==
    (Returned /\ AllUploadsOk /\ HasError)
        => \A i \in 1..N : DeletesOf(uploadedId[i]) = 1

\* C3: when the call returns because an upload failed while other uploads had
\* returned handles, deleteFile has been issued for exactly the handles
\* obtained, and the error is the upload failure's message.
C3_CleanupAfterUploadFailure ==
    [][(pc = "upload" /\ pc' = "done" /\ \E i \in 1..N : upl[i] = "ok")
         => /\ {deleteCalls'[k] : k \in DOMAIN deleteCalls'}
                 = {uploadedId'[i] : i \in {j \in 1..N : upl'[j] = "ok"}}
            /\ result'.error = Reported(faults'[Len(faults')].msg)]_vars

\* C4: once an upload has failed, no thread, message or run operation is ever
\* invoked and the remote threads, messages and runs are as they were.
C4_NoLaterPhaseAfterUploadFailure ==
    SomeUploadFailed =>
        /\ \A op \in {"createThread", "createMessage", "createRun", "getRun",
                       "listMessages"} : calls[op] = 0
        /\ remote.threads = 0 /\ remote.messages = <<>> /\ remote.runs = 0

C4_Witness ==
    /\ Returned /\ SomeUploadFailed
    /\ \E i \in 1..N : upl[i] = "ok"
    /\ \A i \in 1..N : upl[i] # "inflight"

\* C5: a call that returns data issued N uploads and N deletes, and the
\* handles deleted are exactly the handles created, each deleted once.
C5_SuccessDeletesEachHandleOnce ==
    (Returned /\ HasData) =>
        /\ calls["uploadFile"] = N /\ calls["deleteFile"] = N
        /\ Len(deleteCalls) = N
        /\ Cardinality({uploadedId[i] : i \in 1..N}) = N
        /\ \A i \in 1..N : uploadedId[i] # 0 /\ DeletesOf(uploadedId[i]) = 1

C5_Witness ==
    /\ Returned /\ HasData
    /\ N = 2 /\ uploadedId = <<2, 1>>
    /\ \E k \in DOMAIN del : del[k] = "failed"

\* C6: the data returned is the text of the first text part of the first
\* assistant message of the list listMessages returned.
C6_DataIsFirstTextOfNewestAssistantMessage ==
    (Returned /\ HasData) =>
        /\ AssistantAt # {}
        /\ LET content == messages[Least(AssistantAt)].content
           IN  /\ TextAt(content) # {}
               /\ result.data = Str(content[Least(TextAt(content))].text.value)

C6_Witness ==
    /\ Returned /\ HasData
    /\ messages = <<[role |-> "user", content |-> <<TextPart("A")>>],
                    [role |-> "assistant", content |-> <<TextPart("B")>>]>>
    /\ result.data = Str("B")

\* C7: when listMessages returns no assistant message, or the first assistant
\* message has no text part, the call returns an error and no data.
C7_ExtractionFailureIsAnError ==
    (Returned /\ Listed
       /\ (AssistantAt = {} \/ TextAt(messages[Least(AssistantAt)].content) = {}))
        => HasError /\ ~HasData

\* C8: a run observed as failed makes the call return the remote last_error
\* message when there is one and the fixed text otherwise, and listMessages
\* is not called.
C8_FailedRunReportsLastError ==
    (runStatus # Null /\ runStatus.status = "failed") =>
        /\ Returned
        /\ result.data = Undefined
        /\ result.error =
              IF runStatus.last_error # Null
                 /\ runStatus.last_error.message.value # ""
              THEN runStatus.last_error.message
              ELSE Str(RunFailedMsg)
        /\ calls["listMessages"] = 0

C8_Witness ==
    /\ Returned /\ runStatus # Null /\ runStatus.status = "failed"
    /\ pollCount >= 1
    /\ result.error = Str("Rate limit exceeded")

\* C9: after a getRun response with status requires_action no further getRun
\* is issued, and the call returns an error.
C9_NoPollAfterRequiresAction ==
    /\ [][(runStatus # Null /\ runStatus.status = "requires_action")
            => calls'["getRun"] = calls["getRun"]]_vars
    /\ []((Returned /\ runStatus # Null /\ runStatus.status = "requires_action")
            => HasError)

\* C10: every fault of a remote operation makes the call resolve, at once,
\* with an error result whose text is the fault's message, or the generic
\* message when the fault has none.
C10_FaultsBecomeErrorResults ==
    faults # <<>> =>
        /\ Returned
        /\ result.data = Undefined
        /\ result.error = Reported(faults[1].msg)

C10_Witness ==
    /\ Returned
    /\ faults = <<[op |-> "listMessages", msg |-> ""]>>
    /\ result.error = Str(GenericMsg)

\* C14: the one message created on the thread is the instruction text followed
\* by one image reference per input image, the i-th carrying the handle the
\* upload of image i returned, whatever the order the uploads completed in.
C14_MessageImagesFollowInputOrder ==
    remote.messages # <<>> =>
        /\ Len(remote.messages) = 1
        /\ Len(remote.messages[1]) = N + 1
        /\ remote.messages[1][1] = TextPart(PromptText)
        /\ \A i \in 1..N :
              /\ uploadedId[i] # 0
              /\ remote.messages[1][i + 1] = ImagePart(uploadedId[i])

C14_Witness ==
    /\ remote.messages # <<>>
    /\ uploadedId = <<2, 1>>

\* C15: every delete is issued whatever the outcome of the others, the call
\* returns as soon as all have settled, and what it returns is the extracted
\* text with no error, whichever deletes failed.
C15_DeleteFailuresDoNotChangeTheResult ==
    del # <<>> =>
        /\ Len(del) = N /\ calls["deleteFile"] = N
        /\ pc \in {"cleanup", "done"}
        /\ pc = "cleanup" <=> (\E k \in DOMAIN del : del[k] = "inflight")
        /\ Returned =>
              /\ result.error = Undefined
              /\ LET content == messages[Least(AssistantAt)].content
                 IN  result.data =
                       IF TextAt(content) = {} THEN Null
                       ELSE Str(content[Least(TextAt(content))].text.value)

C15_Witness ==
    /\ Returned /\ HasData
    /\ del = <<"failed", "ok">>
    /\ remote.files = {deleteCalls[1]}

\* C18: the polling loop goes on only while the run is queued or in_progress:
\* after getRun reported any other status no further getRun is issued.
C18_PollsOnlyWhileQueuedOrInProgress ==
    [][(runStatus # Null /\ runStatus.status \notin {"queued", "in_progress"})
         => calls'["getRun"] = calls["getRun"]]_vars

\* C19: each phase starts only after the one before it succeeded.
C19_PhasesInOrder ==
    /\ calls["createThread"] > 0 =>
          \A i \in 1..N : upl[i] = "ok" /\ uploadedId[i] # 0
    /\ calls["createMessage"] > 0 => remote.threads = 1
    /\ calls["createRun"] > 0 => remote.messages # <<>>
    /\ calls["getRun"] > 0 => remote.runs = 1
    /\ calls["listMessages"] > 0 =>
          (runStatus # Null /\ runStatus.status = "completed")
    /\ calls["deleteFile"] > 0 => Listed

C19_Witness ==
    /\ Returned /\ HasData
    /\ N = 2 /\ pollCount = 2
    /\ calls["deleteFile"] = 2

\* C20: when the call has returned, none of its uploads is still in flight.
C20_NoUploadInFlightAtReturn ==
    Returned => \A i \in 1..N : upl[i] # "inflight"

\* ------------------------------------------------------ the request path
\* client (pages/home.tsx handleConfigChange), route handler
\* (server/routes.ts POST /api/process-images) and the entry of
\* processImagesWithOpenAI, whose outcome the handler awaits.

StatusOk == 200
StatusBadRequest == 400
StatusServerError == 500

CredentialsRequiredMsg == "API key and Assistant ID are required"
NoFilesMsg == "No image files were uploaded"
RouteGenericMsg == "An error occurred while processing the images"

\* the same run with another credential of the same emptiness
AltKey(v) == IF v = Str("sk-1") THEN Str("sk-2") ELSE v

\* a JS array value
Arr(items) == [tag |-> "array", items |-> items]

\* the requests the handler can receive, after multipart decoding
Requests ==
    [body : [apiKey : {Undefined, Str(""), Str("sk-1")},
             assistantId : {Undefined, Str(""), Str("asst_1")}],
     files : {Undefined} \cup {Arr([i \in 1..k |-> ImageFile(i)]) : k \in 0..MaxFiles}]

AltReq(r) == [r EXCEPT !.body.apiKey = AltKey(@)]

\* what processImagesWithOpenAI can resolve with
ServiceResults ==
    {[data |-> d, error |-> Undefined] : d \in {Null} \cup {Str(t) : t \in TextVals}}
    \cup {CatchResult(Error(Str(m))) :
            m \in FaultMsgs \cup {RequiresActionMsg, RunFailedMsg, NoResponseMsg}}

\* log(message, data) of the client: data is printed when it is truthy
ClientLog(message, data) ==
    IF Falsy(data) THEN <<"[Client]", message>> ELSE <<"[Client]", message, data>>

\* handleConfigChange: the line it logs
ConfigChangeLine(key, value) ==
    ClientLog(<<"Config changed: ", key>>,
              IF key = "apiKey" THEN Str("(masked)") ELSE Str(value))

\* Object.keys(req.body)
BodyKeys(r) == {k \in DOMAIN r.body : r.body[k] # Undefined}

\* files?.length || 0
FilesReceived(r) == IF r.files = Undefined THEN 0 ELSE Len(r.files.items)

\* the "API Key provided" lines of the handler and of the service
ApiKeyLineInClear(who, key) == <<who, "API Key provided: ", key>>

ApiKeyLine(who, key) ==
    <<who, "API Key provided: ", IF Falsy(key) THEN "No" ELSE "Yes (masked)">>

\* the lines the handler logs before it validates
ReceivedLines(r) ==
    <<<<"[Routes]", "Received request to /api/process-images">>,
      <<"[Routes]", "Request body keys: ", BodyKeys(r)>>,
      <<"[Routes]", "Files received: ", FilesReceived(r)>>>>
    \o [i \in 1..FilesReceived(r) |->
          <<"[Routes]", "File ", i, r.files.items[i].size, r.files.items[i].mimetype>>]
    \o <<ApiKeyLine("[Routes]", r.body.apiKey),
          <<"[Routes]", "Assistant ID provided: ",
            IF Falsy(r.body.assistantId) THEN "No" ELSE "Yes">>>>

\* the lines processImagesWithOpenAI logs on entry
ServiceEntryLines(r) ==
    <<<<"[OpenAI Service]", "Starting image processing with files: ", Len(r.files.items)>>,
      <<"[OpenAI Service]", "Using Assistant ID: ", r.body.assistantId>>,
      ApiKeyLine("[OpenAI Service]", r.body.apiKey),
      <<"[OpenAI Service]", "Initializing OpenAI client">>>>

\* the lines the handler logs once the service has resolved
CompletedLines(r) ==
    IF Falsy(r.error)
      THEN <<<<"[Routes]", "Processing completed with success">>,
             <<"[Routes]", "Response data received from OpenAI service">>>>
      ELSE <<<<"[Routes]", "Processing completed with error">>,
             <<"[Routes]", "Error from OpenAI service: ", r.error>>>>

\* !apiKey || !assistantId
MissingCredentialsBoth(key, id) == Falsy(key) /\ Falsy(id)

MissingCredentials(key, id) == Falsy(key) \/ Falsy(id)

\* !files || files.length === 0
NoFiles(fs) == fs = Undefined \/ Len(fs.items) = 0

\* res.json(value): fields whose value is undefined are left out
JsonBody(value) == [k \in {f \in DOMAIN value : value[f] # Undefined} |-> value[k]]

\* the response to a resolved service call
ResolvedResponseByError(r) ==
    [status |-> IF Falsy(r.error) THEN StatusOk ELSE StatusServerError,
     body |-> JsonBody(r)]

ResolvedResponse(r) == [status |-> StatusOk, body |-> JsonBody(r)]

ErrorResponse(status, text) == [status |-> status, body |-> [error |-> Str(text)]]

\* both runs log the lines of a step, each with its own credential
Logged(lines, altLines) ==
    /\ log' = log \o lines
    /\ altLog' = altLog \o altLines

OrchIdle ==
    /\ pc = "idle" /\ files = <<>>
    /\ upl = <<>> /\ uploadedId = <<>> /\ tmp = {} /\ fileIds = <<>>
    /\ remote = [files |-> {}, threads |-> 0, messages |-> <<>>, runs |-> 0]
    /\ nextFileId = 1
    /\ calls = [op \in Ops |-> 0]
    /\ runStatus = Null /\ pollCount = 0 /\ messages = <<>>
    /\ rawResponse = Null /\ deleteCalls = <<>> /\ del = <<>> /\ faults = <<>>
    /\ result = [data |-> Undefined, error |-> Undefined]
    /\ apiKey = "" /\ assistantId = ""

RouteInit == OrchIdle /\ RouteIdle /\ ConcIdle

\* the state of the service call that the request path leaves alone
svcFrame == <<upl, uploadedId, tmp, fileIds, remote, nextFileId, calls,
              runStatus, pollCount, messages, rawResponse, deleteCalls, del,
              faults>>

\* the user edits a configuration field
HandleConfigChange(key, value) ==
    /\ rpc = "idle"
    /\ Len(log) < MaxConfigChanges
    /\ Logged(<<ConfigChangeLine(key, value)>>,
              <<ConfigChangeLine(key, IF key = "apiKey" THEN AltKey(Str(value)).value
                                      ELSE value)>>)
    /\ config' = [config EXCEPT ![key] = value]
    /\ UNCHANGED <<req, rpc, res, svcCalls, ovars, apiKey, assistantId, cvars,
                   home>>

\* a request arrives at the handler
Receive(r) ==
    /\ rpc = "idle"
    /\ req' = r
    /\ rpc' = "received"
    /\ UNCHANGED <<config, res, svcCalls, log, altLog, ovars, apiKey,
                   assistantId, cvars,
                   home>>

\* the handler up to its first await: validation, then the service call
Handle ==
    /\ rpc = "received"
    /\ IF MissingCredentials(req.body.apiKey, req.body.assistantId)
         THEN /\ res' = ErrorResponse(StatusBadRequest, CredentialsRequiredMsg)
              /\ rpc' = "responded"
              /\ Logged(ReceivedLines(req)
                          \o <<<<"[Routes]", "Error: Missing API key or Assistant ID">>>>,
                        ReceivedLines(AltReq(req))
                          \o <<<<"[Routes]", "Error: Missing API key or Assistant ID">>>>)
              /\ UNCHANGED <<svcCalls, pc, files, apiKey, assistantId>>
         ELSE IF NoFiles(req.files)
         THEN /\ res' = ErrorResponse(StatusBadRequest, NoFilesMsg)
              /\ rpc' = "responded"
              /\ Logged(ReceivedLines(req)
                          \o <<<<"[Routes]", "Error: No files uploaded">>>>,
                        ReceivedLines(AltReq(req))
                          \o <<<<"[Routes]", "Error: No files uploaded">>>>)
              /\ UNCHANGED <<svcCalls, pc, files, apiKey, assistantId>>
         ELSE /\ svcCalls' = svcCalls + 1
              /\ apiKey' = req.body.apiKey.value
              /\ assistantId' = req.body.assistantId.value
              /\ files' = req.files.items
              /\ pc' = "start"
              /\ rpc' = "calling"
              /\ Logged(ReceivedLines(req)
                          \o <<<<"[Routes]", "Processing images with OpenAI...">>>>
                          \o ServiceEntryLines(req),
                        ReceivedLines(AltReq(req))
                          \o <<<<"[Routes]", "Processing images with OpenAI...">>>>
                          \o ServiceEntryLines(AltReq(req)))
              /\ UNCHANGED res
    /\ UNCHANGED <<config, req, result, svcFrame, cvars,
                   home>>

\* the awaited call resolves with r
ServiceResolves(r) ==
    /\ rpc = "calling"
    /\ result' = r
    /\ pc' = "done"
    /\ res' = ResolvedResponse(r)
    /\ rpc' = "responded"
    /\ Logged(CompletedLines(r), CompletedLines(r))
    /\ UNCHANGED <<config, req, svcCalls, files, apiKey, assistantId, svcFrame,
                   cvars,
                   home>>

\* the awaited call rejects with an error of message m
ServiceRejects(m) ==
    /\ rpc = "calling"
    /\ pc' = "rejected"
    /\ res' = [status |-> StatusServerError,
               body |-> [error |-> JsOr(Str(m), Str(RouteGenericMsg))]]
    /\ rpc' = "responded"
    /\ Logged(<<<<"[Routes]", "Unexpected error processing images:", m>>>>,
              <<<<"[Routes]", "Unexpected error processing images:", m>>>>)
    /\ UNCHANGED <<config, req, svcCalls, files, apiKey, assistantId, result,
                   svcFrame, cvars,
                   home>>

RouteNext ==
    \/ \E value \in {"", "sk-1"} : HandleConfigChange("apiKey", value)
    \/ \E value \in {"", "asst_1"} : HandleConfigChange("assistantId", value)
    \/ \E r \in Requests : Receive(r)
    \/ Handle
    \/ \E r \in ServiceResults : ServiceResolves(r)
    \/ \E m \in FaultMsgs : ServiceRejects(m)

SpecRoute == RouteInit /\ [][RouteNext]_vars

\* ------------------------------------------------------------ the client
\* processImages of pages/home.tsx: local validation, one fetch, and the
\* isLoading / error / response state that ResponseSection displays

\* a response body that res.json() cannot parse
Unparsable == [tag |-> "unparsable"]

\* body.field of a parsed body
Get(body, field) == IF field \in DOMAIN body THEN body[field] ELSE Undefined

\* what await fetch(...) and the reads of its body can give
FetchOutcomes ==
    {[kind |-> "throw", message |-> "Failed to fetch", ok |-> FALSE,
      text |-> "", statusText |-> "", json |-> Unparsable]}
    \cup [kind : {"response"}, message : {""}, ok : {FALSE},
          text : {"", "{\"error\":\"No image files were uploaded\"}"},
          statusText : {"", "Bad Request"}, json : {Unparsable}]
    \cup [kind : {"response"}, message : {""}, ok : {TRUE}, text : {""},
          statusText : {"OK"},
          json : {Unparsable} \cup {JsonBody(r) : r \in ServiceResults}]

\* !config.apiKey || !config.assistantId
MissingConfiguration == config.apiKey = "" \/ config.assistantId = ""

\* files.length === 0
NoFilesSelected == home.files = 0

\* a validation failure: a toast and nothing else
Refused(h, title) == [h EXCEPT !.calls = @ + 1, !.toast = title]

\* the state is reset and the request is sent
Started(h) ==
    [h EXCEPT !.calls = @ + 1, !.isLoading = TRUE, !.error = Null,
              !.response = Null, !.at = "fetching", !.fetches = @ + 1]

\* the message of the error the try block throws for outcome o, if any
Thrown(o) ==
    IF o.kind = "throw" THEN Str(o.message)
    ELSE IF ~o.ok THEN JsOr(Str(o.text), Str(o.statusText))
    ELSE IF o.json = Unparsable THEN Str("Unexpected token < in JSON at position 0")
    ELSE Undefined

\* try / catch / finally of processImages once the fetch has settled with o
SettledNoFinally(h, o) ==
    IF Thrown(o) # Undefined
      THEN [h EXCEPT !.error = Thrown(o), !.toast = "Error processing images",
                     !.at = "settled"]
    ELSE IF ~Falsy(Get(o.json, "error"))
      THEN [h EXCEPT !.error = Get(o.json, "error"),
                     !.toast = "Error processing images",
                     !.isLoading = FALSE, !.at = "settled"]
      ELSE [h EXCEPT !.response = Get(o.json, "data"), !.toast = "Success",
                     !.isLoading = FALSE, !.at = "settled"]

SettledAs(h, o) ==
    IF Thrown(o) # Undefined
      THEN [h EXCEPT !.error = Thrown(o), !.toast = "Error processing images",
                     !.isLoading = FALSE, !.at = "settled"]
    ELSE IF ~Falsy(Get(o.json, "error"))
      THEN [h EXCEPT !.error = Get(o.json, "error"),
                     !.toast = "Error processing images",
                     !.isLoading = FALSE, !.at = "settled"]
      ELSE [h EXCEPT !.response = Get(o.json, "data"), !.toast = "Success",
                     !.isLoading = FALSE, !.at = "settled"]

ClientInit == OrchIdle /\ RouteIdle /\ ConcIdle

clientFrame == <<ovars, apiKey, assistantId, config, req, rpc, res, svcCalls,
                 log, altLog, cvars>>

\* the user selects n files
HandleFileChange(n) ==
    /\ home.at # "fetching"
    /\ home.files # n
    /\ home' = [home EXCEPT !.files = n]
    /\ UNCHANGED clientFrame

\* processImages up to its first await
ProcessImages ==
    /\ home.at # "fetching"
    /\ home.calls < MaxRequests
    /\ home' = IF MissingConfiguration THEN Refused(home, "Missing configuration")
               ELSE IF NoFilesSelected THEN Refused(home, "No files selected")
               ELSE Started(home)
    /\ UNCHANGED clientFrame

\* the fetch settles with outcome o and processImages runs to its end
FetchSettles(o) ==
    /\ home.at = "fetching"
    /\ home' = SettledAs(home, o)
    /\ UNCHANGED clientFrame

ClientNext ==
    \/ \E value \in {"", "sk-1"} : HandleConfigChange("apiKey", value)
    \/ \E value \in {"", "asst_1"} : HandleConfigChange("assistantId", value)
    \/ \E n \in 0..MaxFiles : HandleFileChange(n)
    \/ ProcessImages
    \/ \E o \in FetchOutcomes : FetchSettles(o)

SpecClient == ClientInit /\ [][ClientNext]_vars

\* ------------------------------------------- concurrent invocations
\* the upload stage of several invocations sharing /tmp and Date.now()

\* file.buffer of image i of invocation a
BufferOf(a, i) == [owner |-> a, index |-> i]

\* path.join('/', 'tmp', `temp_file_${Date.now()}_${index}.jpg`)
TempFilePath(now, i) == <<"/tmp/temp_file", now, i>>

\* fs.existsSync(path)
ExistsSync(path) == \E f \in disk : f.path = path

\* fs.writeFileSync(path, bytes) of every entry of a set of files
WriteAll(written) ==
    {f \in disk : \A w \in written : w.path # f.path} \cup written

\* fs.unlinkSync(path) of an existing file
Unlinked(path) == {f \in disk : f.path # path}

\* the bytes a read of path returns
Content(path) == (CHOOSE f \in disk : f.path = path).bytes

PathOf(a, i) == TempFilePath(invs[a].at, i)

ConcInit == OrchIdle /\ RouteIdle /\ ConcIdle

concFrame == <<ovars, apiKey, assistantId, rvars>>

\* Date.now() advances
Tick ==
    /\ clock < MaxClock
    /\ clock' = clock + 1
    /\ UNCHANGED <<invs, disk, concFrame>>

\* an invocation with n images starts: files.map stages every image and
\* starts its upload before the first await
Invoke(n) ==
    /\ Len(invs) < MaxInvocations
    /\ LET a == Len(invs) + 1 IN
         /\ invs' = Append(invs, [at |-> clock,
                                   st |-> [i \in 1..n |-> "staged"],
                                   sent |-> [i \in 1..n |-> Null],
                                   cause |-> [i \in 1..n |-> "none"]])
         /\ disk' = WriteAll({[path |-> TempFilePath(clock, i),
                               bytes |-> BufferOf(a, i)] : i \in 1..n})
    /\ UNCHANGED <<clock, concFrame>>

\* the read stream of upload i opens its file and sends what it holds
StreamRead(a, i) ==
    /\ invs[a].st[i] = "staged"
    /\ IF ExistsSync(PathOf(a, i))
         THEN invs' = [invs EXCEPT ![a].st[i] = "sending",
                                    ![a].sent[i] = Content(PathOf(a, i))]
         ELSE invs' = [invs EXCEPT ![a].st[i] = "rejected",
                                    ![a].cause[i] = "ENOENT"]
    /\ UNCHANGED <<clock, disk, concFrame>>

\* openai.files.create of upload i resolves; the temporary file is unlinked
FileCreated(a, i) ==
    /\ invs[a].st[i] = "sending"
    /\ IF ExistsSync(PathOf(a, i))
         THEN /\ invs' = [invs EXCEPT ![a].st[i] = "fulfilled"]
              /\ disk' = Unlinked(PathOf(a, i))
         ELSE /\ invs' = [invs EXCEPT ![a].st[i] = "rejected",
                                       ![a].cause[i] = "ENOENT"]
              /\ UNCHANGED disk
    /\ UNCHANGED <<clock, concFrame>>

\* openai.files.create of upload i rejects; the catch block cleans up
FileCreateFails(a, i) ==
    /\ invs[a].st[i] = "sending"
    /\ invs' = [invs EXCEPT ![a].st[i] = "rejected", ![a].cause[i] = "remote"]
    /\ disk' = Unlinked(PathOf(a, i))
    /\ UNCHANGED <<clock, concFrame>>

ConcNext ==
    \/ Tick
    \/ \E n \in 1..MaxFiles : Invoke(n)
    \/ \E a \in 1..Len(invs) : \E i \in 1..Len(invs[a].st) : StreamRead(a, i)
    \/ \E a \in 1..Len(invs) : \E i \in 1..Len(invs[a].st) : FileCreated(a, i)
    \/ \E a \in 1..Len(invs) : \E i \in 1..Len(invs[a].st) : FileCreateFails(a, i)

SpecConc == ConcInit /\ [][ConcNext]_vars

\* C12: a call whose input is invalid (empty credential, empty assistant id,
\* no image, an image over the size limit or of a non-image type) invokes no
\* remote operation and returns an error.
C12_InvalidInputMakesNoRemoteCall ==
    ~ValidInput =>
        /\ \A op \in Ops : calls[op] = 0
        /\ Returned => HasError

Responded == rpc = "responded"

\* C11: the handler calls the service only with both credentials non-empty
\* and at least one file; otherwise it answers 400 without calling it, with
\* the credentials message when a credential is missing and the no-files
\* message when only the files are missing.
C11_HandlerValidatesBeforeCalling ==
    /\ svcCalls > 0 =>
          /\ ~Falsy(req.body.apiKey) /\ ~Falsy(req.body.assistantId)
          /\ req.files # Undefined /\ Len(req.files.items) >= 1
    /\ \A op \in Ops : svcCalls = 0 => calls[op] = 0
    /\ (Responded /\ (Falsy(req.body.apiKey) \/ Falsy(req.body.assistantId))) =>
          /\ svcCalls = 0
          /\ res = [status |-> 400, body |-> [error |-> Str(CredentialsRequiredMsg)]]
    /\ (Responded /\ ~Falsy(req.body.apiKey) /\ ~Falsy(req.body.assistantId)
           /\ (req.files = Undefined \/ req.files = Arr(<<>>))) =>
          /\ svcCalls = 0
          /\ res = [status |-> 400, body |-> [error |-> Str(NoFilesMsg)]]

C11_Witness ==
    /\ Responded /\ svcCalls = 0
    /\ req.body.apiKey = Str("sk-1") /\ req.body.assistantId = Undefined
    /\ req.files = Undefined
    /\ res.body.error = Str(CredentialsRequiredMsg)

\* C13: once the service was called the response is 200 with the service's
\* result as body, for data and error results alike; 500 is sent only when
\* the call rejected; 400 is never sent after the call.
C13_ResultsAreSentWithStatus200 ==
    /\ (Responded /\ svcCalls > 0) =>
          /\ res.status # 400
          /\ pc = "done" =>
                /\ res.status = 200
                /\ \A f \in {"data", "error"} :
                      IF result[f] = Undefined THEN f \notin DOMAIN res.body
                      ELSE f \in DOMAIN res.body /\ res.body[f] = result[f]
    /\ (Responded /\ res.status = 500) => (svcCalls > 0 /\ pc = "rejected")

C13_Witness ==
    /\ Responded /\ svcCalls = 1
    /\ res = [status |-> 200, body |-> [error |-> Str(GenericMsg)]]

\* C16: the run with the credential sk-1 and the run with the credential sk-2
\* take the same branches and log the same lines.
C16_LogIndependentOfCredential ==
    /\ log = altLog
    /\ req # Null =>
          MissingCredentials(req.body.apiKey, req.body.assistantId)
            = MissingCredentials(AltReq(req).body.apiKey, req.body.assistantId)

C16_Witness ==
    /\ Responded /\ svcCalls = 1
    /\ req.body.apiKey = Str("sk-1")
    /\ config.apiKey = "sk-1"
    /\ Len(log) > 8

\* C17: with several invocations in flight, the bytes uploaded for image i of
\* an invocation are that invocation's own image i, and no upload fails for
\* a reason it would not fail for when the invocation runs alone.
C17_InvocationsAreIndependent ==
    \A a \in 1..Len(invs) : \A i \in 1..Len(invs[a].st) :
        /\ invs[a].sent[i] \in {Null, BufferOf(a, i)}
        /\ invs[a].cause[i] # "ENOENT"

\* upload i of invocation a has settled
Settled(a, i) == invs[a].st[i] \in {"fulfilled", "rejected"}

\* openai.files.create of upload i of invocation a resolved
RemoteSucceeded(a, i) ==
    /\ Settled(a, i)
    /\ invs[a].sent[i] # Null
    /\ invs[a].cause[i] # "remote"

\* C21: once the remote call of an upload has settled, the temporary file the
\* upload wrote is no longer on disk, and an upload whose remote call
\* succeeded is reported as fulfilled: removing the file never makes it fail.
C21_StagingIsTransient ==
    \A a \in 1..Len(invs) : \A i \in 1..Len(invs[a].st) :
        /\ Settled(a, i) => \A f \in disk : f.bytes # BufferOf(a, i)
        /\ RemoteSucceeded(a, i) => invs[a].st[i] = "fulfilled"

\* C22: after every step of the client isLoading is true exactly while its
\* request is in flight; once the request has settled at most one of error
\* and response is non-null; and a call of processImages that fails the local
\* validation sends no request and leaves isLoading, error and response as
\* they were, while a call that passes it sends exactly one.
C22_ClientStateFollowsTheRequest ==
    [][/\ home'.isLoading = (home'.at = "fetching")
       /\ home'.at = "settled" =>
             (home'.error = Null \/ home'.response \in {Null, Undefined})
       /\ home'.calls # home.calls =>
             IF MissingConfiguration \/ NoFilesSelected
               THEN /\ home'.fetches = home.fetches
                    /\ home'.isLoading = home.isLoading
                    /\ home'.error = home.error
                    /\ home'.response = home.response
               ELSE /\ home'.fetches = home.fetches + 1
                    /\ home'.isLoading]_vars

C22_Witness ==
    /\ home.calls = 2 /\ home.fetches = 1
    /\ home.at = "settled" /\ ~home.isLoading
    /\ home.error = Str("Failed to fetch") /\ home.response = Null
    /\ home.toast = "No files selected"
====
